---------------------------- MODULE Spec2Model ----------------------------
(***************************************************************************)
(* A model of examples/jupyter/Churn.ipynb: the column fix-up of the data  *)
(* preprocessing, the metric functions, the minibatch training generator   *)
(* with the helper that consumes it, and the notebook's three training     *)
(* runs.                                                                   *)
(*                                                                         *)
(* Conventions.  A dataframe is a record of columns, each a sequence over  *)
(* the rows (row k of pandas, 0-based, is element k+1); a column that does *)
(* not exist yet is the empty sequence.  A Python float that is a quotient *)
(* of counts is kept exact, as a record [num, den] with den > 0.  The      *)
(* external framework is abstracted: the session holds one scalar weight   *)
(* and the number of training steps applied to it, a training step may     *)
(* move the weight anywhere, and the predictions tensor is weight times    *)
(* feature.                                                                *)
(***************************************************************************)
EXTENDS Integers, Sequences, FiniteSets

VARIABLES
    \* ---- fix_columns (get_data) ----
    fc_pc,                  \* position inside binarize_categorical_columns
    train_columns,          \* dummy columns of input_train_df
    test_columns,           \* dummy columns of input_test_df
    test_df_missing_cols,   \* the local of that name: <<>> unbound, <<S>> bound
    train_df_missing_cols,  \* the local of that name: <<>> unbound, <<S>> bound
    loop_todo,              \* elements the running for loop has not visited yet
    \* ---- the metric functions on their own ----
    m_pc,                   \* "input" before, "done" after the call
    m_df,                   \* the dataframe handed to the metric functions
    m_max_churn_rate,       \* the max_churn_rate handed to them
    m_result,               \* what _get_error_rate_and_constraints returned
    \* ---- the notebook's training runs ----
    cell,                   \* the notebook code cell being run or last run (6, 8, 9, 11)
    pc,                     \* "gen": the generator runs; "helper": it is suspended
                            \* at its yield; "returned": training_helper returned
    model,                  \* the Model object: max_churn_rate, train_with_churn, hidden_units
    train_df,               \* the global dataframes
    test_df,
    minibatch_size,         \* locals and arguments of training_generator
    num_iterations_per_loop,
    num_loops,
    permutation,
    minibatch_start_index,
    n,                      \* the outer loop variable
    it,                     \* iterations the inner loop has completed
    session,                \* the tf.Session: [w, steps]
    yielded,                \* the tuple handed over at the yield, <<>> when none
    train_error_rate_vector,   \* locals of training_helper
    train_constraints_matrix,
    test_error_rate_vector,
    test_constraints_matrix,
    fed,                    \* history: one entry per session.run(train_op) of this call
    yields,                 \* history: one entry per yield of this call
    final                   \* history: per training cell, the last predictions yielded

vars == <<fc_pc, train_columns, test_columns, test_df_missing_cols,
          train_df_missing_cols, loop_todo,
          m_pc, m_df, m_max_churn_rate, m_result,
          cell, pc, model, train_df, test_df, minibatch_size,
          num_iterations_per_loop, num_loops, permutation,
          minibatch_start_index, n, it, session, yielded,
          train_error_rate_vector, train_constraints_matrix,
          test_error_rate_vector, test_constraints_matrix,
          fed, yields, final>>

g_vars == <<cell, pc, model, train_df, test_df, minibatch_size,
            num_iterations_per_loop, num_loops, permutation,
            minibatch_start_index, n, it, session, yielded,
            train_error_rate_vector, train_constraints_matrix,
            test_error_rate_vector, test_constraints_matrix,
            fed, yields, final>>

fc_vars == <<fc_pc, train_columns, test_columns, test_df_missing_cols,
             train_df_missing_cols, loop_todo>>

m_vars == <<m_pc, m_df, m_max_churn_rate, m_result>>

-----------------------------------------------------------------------------
(* Bounds of the model.                                                    *)

\* Number of distinct dummy columns get_dummies may produce.
MaxCols == 3

\* Largest number of rows of a dataframe handed to the metric functions.
MaxMetricRows == 2

\* Raw predictions range over -MaxPred..MaxPred.
MaxPred == 1

\* Largest number of rows of train_df in a training run.
MaxRows == 3

\* Number of rows of test_df in a training run.
TestRows == 3

\* Largest minibatch_size, num_iterations_per_loop and num_loops handed to
\* training_helper.
MaxBatch == 4

MaxIters == 2

MaxLoops == 2

\* The notebook's minibatch_size (100), num_iterations_per_loop (326) and
\* num_loops (100), scaled down.
NotebookBatch == 2

NotebookIters == 2

NotebookLoops == 2

-----------------------------------------------------------------------------
(* Exact arithmetic standing for the float quotient and difference.        *)

Rat(numerator, denominator) == [num |-> numerator, den |-> denominator]

RatSub(a, b) == [num |-> a.num * b.den - b.num * a.den, den |-> a.den * b.den]

RatAdd(a, b) == [num |-> a.num * b.den + b.num * a.den, den |-> a.den * b.den]

RatEq(a, b) == a.num * b.den = b.num * a.den

RatLess(a, b) == a.num * b.den < b.num * a.den

RatZero == Rat(0, 1)

-----------------------------------------------------------------------------
(* The metric functions.                                                   *)

\* (labels > 0).astype(float32) - (labels <= 0).astype(float32)
signed_labels(labels) ==
    [i \in DOMAIN labels |->
        (IF labels[i] > 0 THEN 1 ELSE 0) - (IF labels[i] <= 0 THEN 1 ELSE 0)]

\* A bug error_rate could have: a product of exactly 0 is not counted.
error_rate_strict(predictions, labels) ==
    Rat(Cardinality({i \in DOMAIN predictions :
                        signed_labels(labels)[i] * predictions[i] < 0}),
        Len(predictions))

error_rate(predictions, labels) ==
    LET count == Cardinality({i \in DOMAIN predictions :
                        signed_labels(labels)[i] * predictions[i] <= 0})
        rows == Len(predictions)
    IN  Rat(count, rows)

\* A bug _get_error_rate_and_constraints could have: the violation clamped at 0.
get_error_rate_and_constraints_clamped(df, max_churn_rate) ==
    LET error_rate_local == error_rate(df.predictions, df.label)
        error_rate_churn == error_rate(df.predictions, df.churn_label)
        diff == RatSub(error_rate_churn, max_churn_rate)
    IN  <<error_rate_local, IF diff.num < 0 THEN Rat(0, diff.den) ELSE diff>>

\* _get_error_rate_and_constraints: (error rate, churn rate - max_churn_rate)
get_error_rate_and_constraints(df, max_churn_rate) ==
    LET error_rate_local == error_rate(df.predictions, df.label)
        error_rate_churn == error_rate(df.predictions, df.churn_label)
    IN  <<error_rate_local, RatSub(error_rate_churn, max_churn_rate)>>

\* The two max_churn_rate values of the notebook: 0.05 (the default) and 0.025.
DefaultMaxChurnRate == Rat(1, 20)

NotebookMaxChurnRate == Rat(1, 40)

-----------------------------------------------------------------------------
(* fix_columns, run on the column sets of the two binarized dataframes.    *)

Columns == 1 .. MaxCols

Unbound == <<>>

Bound(S) == <<S>>

fc_idle ==
    /\ fc_pc = "idle"
    /\ train_columns = {}
    /\ test_columns = {}
    /\ test_df_missing_cols = Unbound
    /\ train_df_missing_cols = Unbound
    /\ loop_todo = {}

\* The call fix_columns(binarized_train_df, binarized_test_df).
fc_Init ==
    /\ fc_pc = "call"
    /\ train_columns \in SUBSET Columns \ {{}}
    /\ test_columns \in SUBSET Columns \ {{}}
    /\ test_df_missing_cols = Unbound
    /\ train_df_missing_cols = Unbound
    /\ loop_todo = {}

\* test_df_missing_cols = set(train.columns) - set(test.columns)
fc_Begin ==
    /\ UNCHANGED <<m_vars, g_vars>>
    /\ fc_pc = "call"
    /\ test_df_missing_cols' = Bound(train_columns \ test_columns)
    /\ loop_todo' = train_columns \ test_columns
    /\ fc_pc' = "loop1"
    /\ UNCHANGED <<train_columns, test_columns, train_df_missing_cols>>

\* First loop body: input_test_df[c] = 0, then (indented into the loop)
\* train_df_missing_cols = set(test.columns) - set(train.columns).
fc_Loop1Body ==
    /\ UNCHANGED <<m_vars, g_vars>>
    /\ fc_pc = "loop1"
    /\ \E c \in loop_todo :
          /\ test_columns' = test_columns \cup {c}
          /\ train_df_missing_cols' = Bound(test_columns' \ train_columns)
          /\ loop_todo' = loop_todo \ {c}
    /\ UNCHANGED <<fc_pc, train_columns, test_df_missing_cols>>

\* The first loop is exhausted; `for c in train_df_missing_cols` reads the
\* local, which is unbound when the first loop ran no iteration.
fc_Loop1End ==
    /\ UNCHANGED <<m_vars, g_vars>>
    /\ fc_pc = "loop1"
    /\ loop_todo = {}
    /\ IF train_df_missing_cols = Unbound
          THEN /\ fc_pc' = "UnboundLocalError"
               /\ UNCHANGED loop_todo
          ELSE /\ fc_pc' = "loop2"
               /\ loop_todo' = train_df_missing_cols[1]
    /\ UNCHANGED <<train_columns, test_columns, test_df_missing_cols,
                   train_df_missing_cols>>

\* Second loop body: input_train_df[c] = 0, then (indented into the loop)
\* input_train_df = input_train_df[input_test_df.columns], which raises
\* KeyError when a column of the test dataframe is not in the train one.
fc_Loop2Body ==
    /\ UNCHANGED <<m_vars, g_vars>>
    /\ fc_pc = "loop2"
    /\ \E c \in loop_todo :
          LET with_c == train_columns \cup {c}
          IN  IF test_columns \subseteq with_c
                 THEN /\ train_columns' = test_columns
                      /\ loop_todo' = loop_todo \ {c}
                      /\ UNCHANGED fc_pc
                 ELSE /\ train_columns' = with_c
                      /\ fc_pc' = "KeyError"
                      /\ UNCHANGED loop_todo
    /\ UNCHANGED <<test_columns, test_df_missing_cols, train_df_missing_cols>>

\* return input_train_df, input_test_df
fc_Return ==
    /\ UNCHANGED <<m_vars, g_vars>>
    /\ fc_pc = "loop2"
    /\ loop_todo = {}
    /\ fc_pc' = "return"
    /\ UNCHANGED <<train_columns, test_columns, test_df_missing_cols,
                   train_df_missing_cols, loop_todo>>

-----------------------------------------------------------------------------
(* The metric functions applied to one dataframe.                          *)

PredValues == -MaxPred .. MaxPred

SeqsOfLen(S, len) == [1 .. len -> S]

m_idle ==
    /\ m_pc = "idle"
    /\ m_df = [label |-> <<>>, churn_label |-> <<>>, predictions |-> <<>>]
    /\ m_max_churn_rate = RatZero
    /\ m_result = <<>>

\* A non-empty dataframe with labels in {0, 1}, the raw predictions of an old
\* model as churn_label, and the raw predictions of the new model.
m_Init ==
    /\ m_pc = "input"
    /\ \E len \in 1 .. MaxMetricRows :
          m_df \in [label : SeqsOfLen({0, 1}, len),
                    churn_label : SeqsOfLen(PredValues, len),
                    predictions : SeqsOfLen(PredValues, len)]
    /\ m_max_churn_rate \in {DefaultMaxChurnRate, NotebookMaxChurnRate}
    /\ m_result = <<>>

m_Compute ==
    /\ UNCHANGED <<fc_vars, g_vars>>
    /\ m_pc = "input"
    /\ m_result' = get_error_rate_and_constraints(m_df, m_max_churn_rate)
    /\ m_pc' = "done"
    /\ UNCHANGED <<m_df, m_max_churn_rate>>

-----------------------------------------------------------------------------
(* Dataframes and the Model object.                                        *)

\* The weights a training step or the initializer can leave in the session.
Weights == {-1, 0, 1}

Alternating(len, first) ==
    [i \in 1 .. len |-> IF i % 2 = 1 THEN first ELSE -first]

\* The train dataframe get_data returns: len rows, one feature column, the
\* label column; `predictions` and `churn_label` come later.
TrainData(len) ==
    [features |-> Alternating(len, 1),
     label |-> [i \in 1 .. len |-> i % 2],
     churn_label |-> <<>>,
     predictions |-> <<>>]

\* The test dataframe get_data returns.
TestData(len) ==
    [features |-> [i \in 1 .. len |-> IF i = 1 THEN -1 ELSE 1],
     label |-> [i \in 1 .. len |-> 1],
     churn_label |-> <<>>,
     predictions |-> <<>>]

num_rows == Len(train_df.features)

\* dataframe.iloc[rows], rows being 0-based positions
iloc(df, rows) ==
    [c \in DOMAIN df |->
        IF df[c] = <<>> THEN <<>>
        ELSE [k \in 1 .. Len(rows) |-> df[c][rows[k] + 1]]]

\* Model.feed_dict_helper
feed_dict_helper(dataframe) ==
    [features_placeholder |-> dataframe.features,
     labels_placeholder |-> dataframe.label,
     churn_placeholder |-> dataframe.churn_label]

\* session.run(model.predictions_tensor, feed_dict): the output layer applied
\* to the features placeholder.
predictions_tensor(sess, feed_dict) ==
    [i \in DOMAIN feed_dict.features_placeholder |->
        sess.w * feed_dict.features_placeholder[i]]

\* Model(hidden_units, max_churn_rate) followed by build_train_op(0.01, churn)
Model(hidden_units, max_churn_rate, train_with_churn) ==
    [hidden_units |-> hidden_units,
     max_churn_rate |-> max_churn_rate,
     train_with_churn |-> train_with_churn]

-----------------------------------------------------------------------------
(* training_generator.                                                     *)

\* Python's min of two numbers
min(a, b) == IF a < b THEN a ELSE b

\* range(a, b) as a sequence
Range(a, b) == [k \in 1 .. (b - a) |-> a + k - 1]

\* A bug the sampler could have: at the wrap-around the start index moves on
\* as if the rows past the end had been taken.
RECURSIVE minibatch_overrun(_, _, _, _)
minibatch_overrun(minibatch_indices, start, size, rows) ==
    IF Len(minibatch_indices) >= size
       THEN [minibatch_indices |-> minibatch_indices,
             minibatch_start_index |-> start]
       ELSE LET minibatch_end_index == start + size - Len(minibatch_indices)
            IN  IF minibatch_end_index >= rows
                   THEN minibatch_overrun(
                            minibatch_indices \o Range(start, rows),
                            minibatch_end_index - rows, size, rows)
                   ELSE minibatch_overrun(
                            minibatch_indices \o Range(start, minibatch_end_index),
                            minibatch_end_index, size, rows)

\* The while loop that fills minibatch_indices; returns the list and the
\* start index it leaves.
RECURSIVE minibatch(_, _, _, _)
minibatch(minibatch_indices, start, size, rows) ==
    IF Len(minibatch_indices) >= size
       THEN [minibatch_indices |-> minibatch_indices,
             minibatch_start_index |-> start]
       ELSE LET minibatch_end_index == start + size - Len(minibatch_indices)
            IN  IF minibatch_end_index >= rows
                   THEN minibatch(minibatch_indices \o Range(start, rows),
                                  0, size, rows)
                   ELSE minibatch(
                            minibatch_indices \o Range(start, minibatch_end_index),
                            minibatch_end_index, size, rows)

\* A bug the inner loop could have: one iteration short.
inner_loop_has_next_short == it + 1 < num_iterations_per_loop

\* for _ in xrange(num_iterations_per_loop)
inner_loop_has_next == it < num_iterations_per_loop

\* for n in xrange(num_loops)
outer_loop_has_next == n < num_loops

\* The generator's code up to the outer loop: the locals, a fresh session with
\* its variables initialized, and no history.
generator_started ==
    /\ pc = "gen"
    /\ minibatch_start_index = 0
    /\ n = 0
    /\ it = 0
    /\ session \in [w : Weights, steps : {0}]
    /\ yielded = <<>>
    /\ fed = <<>>
    /\ yields = <<>>

\* training_helper's four empty lists
helper_started ==
    /\ train_error_rate_vector = <<>>
    /\ train_constraints_matrix = <<>>
    /\ test_error_rate_vector = <<>>
    /\ test_constraints_matrix = <<>>

\* One iteration of the inner loop: fill minibatch_indices, run the train op
\* on the rows permutation[ii] of train_df.
gen_TrainStep ==
    /\ UNCHANGED <<fc_vars, m_vars>>
    /\ pc = "gen"
    /\ outer_loop_has_next
    /\ inner_loop_has_next
    /\ LET mb == minibatch(<<>>, minibatch_start_index, minibatch_size, num_rows)
           rows == [k \in 1 .. Len(mb.minibatch_indices) |->
                       permutation[mb.minibatch_indices[k] + 1]]
       IN  /\ minibatch_start_index' = mb.minibatch_start_index
           /\ fed' = Append(fed,
                        [loop |-> n,
                         minibatch_indices |-> mb.minibatch_indices,
                         rows |-> rows,
                         feed_dict |-> feed_dict_helper(iloc(train_df, rows))])
    /\ session' \in [w : Weights, steps : {session.steps + 1}]
    /\ it' = it + 1
    /\ UNCHANGED <<cell, pc, model, train_df, test_df, minibatch_size,
                   num_iterations_per_loop, num_loops, permutation, n, yielded,
                   train_error_rate_vector, train_constraints_matrix,
                   test_error_rate_vector, test_constraints_matrix,
                   yields, final>>

\* The inner loop is exhausted: compute the train and the test predictions
\* and yield them.
gen_Yield ==
    /\ UNCHANGED <<fc_vars, m_vars>>
    /\ pc = "gen"
    /\ outer_loop_has_next
    /\ ~inner_loop_has_next
    /\ LET train_predictions ==
               predictions_tensor(session, feed_dict_helper(train_df))
           test_predictions ==
               predictions_tensor(session, feed_dict_helper(test_df))
       IN  /\ yielded' = <<train_predictions, test_predictions>>
           /\ yields' = Append(yields,
                           [train |-> train_predictions,
                            test |-> test_predictions,
                            steps |-> session.steps])
           /\ final' = [final EXCEPT ![cell] =
                           [train |-> train_predictions,
                            test |-> test_predictions]]
    /\ pc' = "helper"
    /\ UNCHANGED <<cell, model, train_df, test_df, minibatch_size,
                   num_iterations_per_loop, num_loops, permutation,
                   minibatch_start_index, n, it, session,
                   train_error_rate_vector, train_constraints_matrix,
                   test_error_rate_vector, test_constraints_matrix, fed>>

-----------------------------------------------------------------------------
(* training_helper.                                                        *)

\* A bug the loop body could have: the predictions stored only while the
\* column does not exist yet, so later loops measure the first yield again.
helper_columns_stale(train, test) ==
    /\ train_df' = IF train_df.predictions = <<>>
                      THEN [train_df EXCEPT !.predictions = train]
                      ELSE train_df
    /\ test_df' = IF test_df.predictions = <<>>
                     THEN [test_df EXCEPT !.predictions = test]
                     ELSE test_df

\* A bug the loop body could have: the predictions also stored as churn_label.
helper_columns_churn(train, test) ==
    /\ train_df' = [train_df EXCEPT !.predictions = train, !.churn_label = train]
    /\ test_df' = [test_df EXCEPT !.predictions = test, !.churn_label = test]

\* train_df['predictions'] = train; test_df['predictions'] = test
helper_columns(train, test) ==
    /\ train_df' = [train_df EXCEPT !.predictions = train]
    /\ test_df' = [test_df EXCEPT !.predictions = test]

\* The body of training_helper's for loop on the tuple just yielded, up to
\* the loop asking the generator for the next one, which takes the generator
\* to the head of its outer loop.
helper_Body ==
    /\ UNCHANGED <<fc_vars, m_vars>>
    /\ pc = "helper"
    /\ helper_columns(yielded[1], yielded[2])
    /\ LET train_metrics ==
               get_error_rate_and_constraints(train_df', model.max_churn_rate)
           test_metrics ==
               get_error_rate_and_constraints(test_df', model.max_churn_rate)
       IN  /\ train_error_rate_vector' =
                  Append(train_error_rate_vector, train_metrics[1])
           /\ train_constraints_matrix' =
                  Append(train_constraints_matrix, train_metrics[2])
           /\ test_error_rate_vector' =
                  Append(test_error_rate_vector, test_metrics[1])
           /\ test_constraints_matrix' =
                  Append(test_constraints_matrix, test_metrics[2])
    /\ yielded' = <<>>
    /\ n' = n + 1
    /\ it' = 0
    /\ pc' = "gen"
    /\ UNCHANGED <<cell, model, minibatch_size, num_iterations_per_loop,
                   num_loops, permutation, minibatch_start_index, session,
                   fed, yields, final>>

\* The outer loop is exhausted: the generator ends and training_helper
\* returns its four lists.
helper_Return ==
    /\ UNCHANGED <<fc_vars, m_vars>>
    /\ pc = "gen"
    /\ ~outer_loop_has_next
    /\ pc' = "returned"
    /\ UNCHANGED <<cell, model, train_df, test_df, minibatch_size,
                   num_iterations_per_loop, num_loops, permutation,
                   minibatch_start_index, n, it, session, yielded,
                   train_error_rate_vector, train_constraints_matrix,
                   test_error_rate_vector, test_constraints_matrix,
                   fed, yields, final>>

-----------------------------------------------------------------------------
(* The notebook's cells.                                                   *)

\* train_df[CHURN_COLUMN] = train_df["predictions"], and the same for test_df
cell8_columns ==
    /\ train_df' = [train_df EXCEPT !.churn_label = train_df.predictions]
    /\ test_df' = [test_df EXCEPT !.churn_label = test_df.predictions]

\* Cell 8, run once the first training has returned.
nb_Cell8 ==
    /\ UNCHANGED <<fc_vars, m_vars>>
    /\ cell = 6
    /\ pc = "returned"
    /\ cell8_columns
    /\ cell' = 8
    /\ UNCHANGED <<pc, model, minibatch_size, num_iterations_per_loop,
                   num_loops, permutation, minibatch_start_index, n, it,
                   session, yielded,
                   train_error_rate_vector, train_constraints_matrix,
                   test_error_rate_vector, test_constraints_matrix,
                   fed, yields, final>>

\* A training cell up to the generator's outer loop: the model, the train op,
\* the call of training_helper and the start of the generator.
training_cell(number, hidden_units, max_churn_rate, train_with_churn) ==
    /\ cell' = number
    /\ model' = Model(hidden_units, max_churn_rate, train_with_churn)
    /\ pc' = "gen"
    /\ minibatch_start_index' = 0
    /\ n' = 0
    /\ it' = 0
    /\ session' \in [w : Weights, steps : {0}]
    /\ yielded' = <<>>
    /\ fed' = <<>>
    /\ yields' = <<>>
    /\ train_error_rate_vector' = <<>>
    /\ train_constraints_matrix' = <<>>
    /\ test_error_rate_vector' = <<>>
    /\ test_constraints_matrix' = <<>>
    /\ UNCHANGED <<train_df, test_df, minibatch_size, num_iterations_per_loop,
                   num_loops, permutation, final>>

\* Cell 9: the linear model without the churn constraint.
nb_Cell9 ==
    /\ UNCHANGED <<fc_vars, m_vars>>
    /\ cell = 8
    /\ training_cell(9, 0, NotebookMaxChurnRate, FALSE)

\* Cell 11: the linear model with the churn constraint.
nb_Cell11 ==
    /\ UNCHANGED <<fc_vars, m_vars>>
    /\ cell = 9
    /\ pc = "returned"
    /\ training_cell(11, 0, NotebookMaxChurnRate, TRUE)

-----------------------------------------------------------------------------
(* Initial states of the training runs.                                    *)

\* The lists random.shuffle can leave in `permutation`.
Permutations(len) ==
    {p \in [1 .. len -> 0 .. (len - 1)] :
        \A i, j \in 1 .. len : i # j => p[i] # p[j]}

NoPredictions == [train |-> <<>>, test |-> <<>>]

\* Cell 6 up to the generator's outer loop, for a call
\* training_helper(model, train_df, test_df, batch, iterations, loops) on
\* dataframes of the given sizes.
cell6_started(train_rows, test_rows, batch, iterations, loops) ==
    /\ cell = 6
    /\ model = Model(10, DefaultMaxChurnRate, FALSE)
    /\ train_df = [TrainData(train_rows) EXCEPT
                      !.churn_label = TrainData(train_rows).label]
    /\ test_df = [TestData(test_rows) EXCEPT
                      !.churn_label = TestData(test_rows).label]
    /\ minibatch_size = min(batch, train_rows)
    /\ num_iterations_per_loop = iterations
    /\ num_loops = loops
    /\ permutation \in Permutations(train_rows)
    /\ generator_started
    /\ helper_started
    /\ final = [c \in {6, 9, 11} |-> NoPredictions]

g_idle ==
    /\ cell = 0
    /\ pc = "idle"
    /\ model = Model(0, RatZero, FALSE)
    /\ train_df = TrainData(0)
    /\ test_df = TestData(0)
    /\ minibatch_size = 0
    /\ num_iterations_per_loop = 0
    /\ num_loops = 0
    /\ permutation = <<>>
    /\ minibatch_start_index = 0
    /\ n = 0
    /\ it = 0
    /\ session = [w |-> 1, steps |-> 0]
    /\ yielded = <<>>
    /\ helper_started
    /\ fed = <<>>
    /\ yields = <<>>
    /\ final = [c \in {6, 9, 11} |-> NoPredictions]

\* One call of training_helper, for every small choice of its arguments.
InitGen ==
    /\ fc_idle
    /\ m_idle
    /\ \E train_rows \in 1 .. MaxRows, batch \in 1 .. MaxBatch,
          iterations \in 1 .. MaxIters, loops \in 0 .. MaxLoops :
          cell6_started(train_rows, TestRows, batch, iterations, loops)

NextGen ==
    \/ gen_TrainStep
    \/ gen_Yield
    \/ helper_Body
    \/ helper_Return

SpecGen == InitGen /\ [][NextGen]_vars

\* The notebook from cell 6 on, its three calls of training_helper made with
\* the same arguments.
Init ==
    /\ fc_idle
    /\ m_idle
    /\ \E train_rows \in 1 .. MaxRows :
          cell6_started(train_rows, TestRows,
                        NotebookBatch, NotebookIters, NotebookLoops)

Next ==
    \/ gen_TrainStep
    \/ gen_Yield
    \/ helper_Body
    \/ helper_Return
    \/ nb_Cell8
    \/ nb_Cell9
    \/ nb_Cell11

Spec == Init /\ [][Next]_vars

-----------------------------------------------------------------------------
(* Specifications.                                                         *)

\* binarize_categorical_columns on every pair of dummy-column sets.
InitCols == fc_Init /\ m_idle /\ g_idle

NextCols ==
    \/ fc_Begin
    \/ fc_Loop1Body
    \/ fc_Loop1End
    \/ fc_Loop2Body
    \/ fc_Return

SpecCols == InitCols /\ [][NextCols]_vars

\* _get_error_rate_and_constraints on every small dataframe.
InitMetrics == m_Init /\ fc_idle /\ g_idle

NextMetrics == m_Compute

SpecMetrics == InitMetrics /\ [][NextMetrics]_vars

-----------------------------------------------------------------------------
(* Histories read by the properties.                                       *)

RECURSIVE Concat(_)
Concat(seqs) == IF seqs = <<>> THEN <<>> ELSE Head(seqs) \o Concat(Tail(seqs))

\* The minibatch_indices lists of all training steps so far, concatenated.
FedIndices == Concat([k \in 1 .. Len(fed) |-> fed[k].minibatch_indices])

\* How many times row `row` of train_df was fed during outer loop `loop`.
TimesFed(row, loop) ==
    Cardinality({kj \in UNION {{<<k, j>> : j \in DOMAIN fed[k].rows} :
                                  k \in 1 .. Len(fed)} :
                    /\ fed[kj[1]].loop = loop
                    /\ fed[kj[1]].rows[kj[2]] = row})

\* The predicted label of a raw prediction: positive when it is > 0.
PredictedPositive(prediction) == prediction > 0

\* The rows on which the predicted label differs between two models.
Flips(old, new) ==
    {i \in DOMAIN new : PredictedPositive(old[i]) # PredictedPositive(new[i])}

\* The rows a classifier gets right: strictly positive for label 1, strictly
\* negative for label 0.
CorrectlyClassified(predictions, labels) ==
    {i \in DOMAIN predictions :
        \/ labels[i] = 1 /\ predictions[i] > 0
        \/ labels[i] = 0 /\ predictions[i] < 0}

\* The churn rate _get_error_rate_and_constraints computed, recovered from the
\* violation it returned.
ComputedChurnRate == RatAdd(m_result[2], m_max_churn_rate)

-----------------------------------------------------------------------------
(* Properties.                                                             *)

\* C1: whenever training_generator yields, every row of train_df has been fed
\* to the training op exactly once during the loop iteration that just ended
\* (one epoch per loop iteration).
C1_OneEpochPerLoop ==
    pc = "helper" =>
        \A row \in 0 .. (num_rows - 1) : TimesFed(row, n) = 1

\* C2: the positions fed by all training steps of a call, in order, are
\* 0, 1, ..., num_rows-1, 0, 1, ...: the p-th position fed (from 0) is
\* p modulo num_rows.
C2_CyclicSampler ==
    pc \in {"gen", "helper", "returned"} =>
        \A p \in 1 .. Len(FedIndices) : FedIndices[p] = (p - 1) % num_rows

\* C2's case: a call that has returned after a wrap-around in the middle of a
\* minibatch and more positions fed than there are rows.
C2_Witness ==
    /\ pc = "returned"
    /\ Len(FedIndices) > num_rows
    /\ \E k \in 1 .. Len(fed) :
          \E j \in 1 .. (Len(fed[k].minibatch_indices) - 1) :
             /\ fed[k].minibatch_indices[j] = num_rows - 1
             /\ fed[k].minibatch_indices[j + 1] = 0

\* C3: binarize_categorical_columns completes, and the two dataframes it
\* returns have the same set of columns.
C3_SameColumns ==
    /\ fc_pc \notin {"UnboundLocalError", "KeyError"}
    /\ fc_pc = "return" => train_columns = test_columns

\* C4: each of the four lists of training_helper holds one entry per yield
\* consumed, num_loops entries once it has returned, and the i-th entries are
\* the error rate and the violation of the predictions of the i-th yield (train
\* lists from the train predictions, test lists from the test predictions).
C4_ListsFollowYields ==
    pc \in {"gen", "helper", "returned"} =>
        LET consumed == IF pc = "helper" THEN Len(yields) - 1 ELSE Len(yields)
        IN  /\ Len(train_error_rate_vector) = consumed
            /\ Len(train_constraints_matrix) = consumed
            /\ Len(test_error_rate_vector) = consumed
            /\ Len(test_constraints_matrix) = consumed
            /\ pc = "returned" => consumed = num_loops
            /\ \A i \in 1 .. consumed :
                  /\ train_error_rate_vector[i] =
                        error_rate(yields[i].train, train_df.label)
                  /\ train_constraints_matrix[i] =
                        RatSub(error_rate(yields[i].train, train_df.churn_label),
                               model.max_churn_rate)
                  /\ test_error_rate_vector[i] =
                        error_rate(yields[i].test, test_df.label)
                  /\ test_constraints_matrix[i] =
                        RatSub(error_rate(yields[i].test, test_df.churn_label),
                               model.max_churn_rate)

\* C4's case: a call that has returned after two loops whose yields gave
\* different metrics.
C4_Witness ==
    /\ pc = "returned"
    /\ num_loops = 2
    /\ Len(train_error_rate_vector) = 2
    /\ train_error_rate_vector[1] # train_error_rate_vector[2]
    /\ test_constraints_matrix[1] # test_constraints_matrix[2]

\* C5: the churn rate _get_error_rate_and_constraints computes is the
\* fraction of rows whose predicted label differs between churn_label (the old
\* model's raw predictions) and predictions.
C5_ChurnIsFlipFraction ==
    m_pc = "done" =>
        RatEq(ComputedChurnRate,
              Rat(Cardinality(Flips(m_df.churn_label, m_df.predictions)),
                  Len(m_df.predictions)))

\* C6 as stated: the violation returned is churn rate - max_churn_rate when
\* the churn rate is above max_churn_rate, and 0 otherwise.
C6_ViolationClampedAtZero ==
    m_pc = "done" =>
        LET churn == error_rate(m_df.predictions, m_df.churn_label)
        IN  IF RatLess(m_max_churn_rate, churn)
               THEN RatEq(m_result[2], RatSub(churn, m_max_churn_rate))
               ELSE RatEq(m_result[2], RatZero)

\* C6 as amended: the violation returned is churn rate - max_churn_rate in
\* every case, so it is negative when the churn rate is below max_churn_rate.
C6_ViolationIsSignedDifference ==
    m_pc = "done" =>
        LET churn == error_rate(m_df.predictions, m_df.churn_label)
        IN  /\ RatEq(RatAdd(m_result[2], m_max_churn_rate), churn)
            /\ RatLess(churn, m_max_churn_rate) <=> RatLess(m_result[2], RatZero)
            /\ RatLess(m_max_churn_rate, churn) <=> RatLess(RatZero, m_result[2])

\* C6's case: a churn rate below max_churn_rate, and a negative violation.
C6_Witness ==
    /\ m_pc = "done"
    /\ RatLess(error_rate(m_df.predictions, m_df.churn_label), m_max_churn_rate)
    /\ m_result[2].num < 0

\* C7: on a non-empty dataframe with labels in {0, 1} the error rate is the
\* number of rows not correctly classified (a prediction of 0 never is) over
\* the number of rows, and lies between 0 and 1.
C7_ErrorRateIsMisclassifiedFraction ==
    m_pc = "done" =>
        LET rows == Len(m_df.predictions)
            wrong == rows - Cardinality(
                         CorrectlyClassified(m_df.predictions, m_df.label))
        IN  /\ m_result[1] = Rat(wrong, rows)
            /\ 0 <= m_result[1].num
            /\ m_result[1].num <= m_result[1].den

\* C7's case: predictions of exactly 0 on a row of each label, both counted.
C7_Witness ==
    /\ m_pc = "done"
    /\ \E i, j \in DOMAIN m_df.predictions :
          /\ m_df.predictions[i] = 0 /\ m_df.label[i] = 1
          /\ m_df.predictions[j] = 0 /\ m_df.label[j] = 0
    /\ m_result[1] = Rat(2, 2)

\* C8: from cell 8 on, the churn_label column of train_df and test_df holds
\* the last predictions the first (network) run yielded; the later runs leave
\* it, the features and the labels alone, feed it as the churn placeholder of
\* every training step, and measure their violations against it.
C8_ChurnReferenceIsNetwork ==
    cell \in {8, 9, 11} =>
        /\ train_df.churn_label = final[6].train
        /\ test_df.churn_label = final[6].test
        /\ train_df.features = TrainData(num_rows).features
        /\ train_df.label = TrainData(num_rows).label
        /\ test_df.features = TestData(Len(test_df.features)).features
        /\ test_df.label = TestData(Len(test_df.features)).label
        /\ cell \in {9, 11} =>
              /\ \A k \in 1 .. Len(fed) :
                    fed[k].feed_dict.churn_placeholder =
                        [j \in DOMAIN fed[k].rows |->
                            final[6].train[fed[k].rows[j] + 1]]
              /\ \A i \in 1 .. Len(train_constraints_matrix) :
                    /\ train_constraints_matrix[i] =
                          RatSub(error_rate(yields[i].train, final[6].train),
                                 model.max_churn_rate)
                    /\ test_constraints_matrix[i] =
                          RatSub(error_rate(yields[i].test, final[6].test),
                                 model.max_churn_rate)

\* C8's case: the constrained run has returned, it trained, and the linear run
\* before it ended on predictions other than the network's.
C8_Witness ==
    /\ cell = 11
    /\ pc = "returned"
    /\ Len(fed) > 0
    /\ final[9].train # final[6].train
    /\ train_df.predictions # train_df.churn_label

\* C9: the generator yields once per outer loop and num_loops times in all;
\* the predictions of the i-th yield are computed when exactly
\* i * num_iterations_per_loop training steps have run; every training step
\* feeds one minibatch of minibatch_size positions, and the k-th step belongs
\* to outer loop (k-1) div num_iterations_per_loop.
C9_StepsAndYields ==
    pc \in {"gen", "helper", "returned"} =>
        /\ Len(yields) <= num_loops
        /\ pc = "returned" =>
              /\ Len(yields) = num_loops
              /\ session.steps = num_loops * num_iterations_per_loop
        /\ \A i \in 1 .. Len(yields) :
              yields[i].steps = i * num_iterations_per_loop
        /\ Len(fed) = session.steps
        /\ \A k \in 1 .. Len(fed) :
              /\ Len(fed[k].minibatch_indices) = minibatch_size
              /\ fed[k].loop = (k - 1) \div num_iterations_per_loop
              /\ fed[k].loop = Len(SelectSeq(yields, LAMBDA y : y.steps < k))

\* C9's case: a call that has returned after two loops of two steps each.
C9_Witness ==
    /\ pc = "returned"
    /\ num_loops = 2
    /\ num_iterations_per_loop = 2
    /\ Len(yields) = 2
    /\ session.steps = 4

=============================================================================
